---- MODULE Spec2Model ----
(***************************************************************************)
(* The optimization_intro notebooks as state machines.                     *)
(*                                                                         *)
(*  - "2 - Transportation Problem": data cell, model cell (build the LP    *)
(*    and solve it), getvalue cell, run by a Jupyter kernel.               *)
(*  - "6 - Working with MIO Solvers": the three knapsack cells, with the   *)
(*    search the notebook describes (incumbent, bound, pruning).           *)
(*  - "Word Embeddings" (the R Markdown document in the same file): load   *)
(*    the reviews, restrict the vocabulary, pad, build, fit, evaluate.     *)
(*                                                                         *)
(* Quantities are integers.  The solver is modelled by what solve(model)   *)
(* denotes for the model the cells build: the status and an optimal point  *)
(* of the declared constraints and objective.                              *)
(***************************************************************************)
EXTENDS Integers, Sequences, FiniteSets, TLC

VARIABLES
    nb,           \* the notebook this session runs
    inst,         \* transportation notebook: the globals m, n, b, d, c of the data cell
    dataDefined,  \* the data cell has run
    models,       \* every Model(...) object built so far, in order of construction
    inflight,     \* external calls (solve) issued and not yet returned
    readback,     \* what the getvalue(x) cell last displayed
    kinst,        \* MIO notebook: the coefficients the seeded rand(N) calls produce
    kpc,          \* MIO notebook: the next cell to run
    search,       \* MIO notebook: the solver's search while a solve is in progress
    rng,          \* MIO notebook: the state of the global random source
    runlog,       \* MIO notebook: the cells run so far, each with the model it built
    imdb,         \* Word Embeddings: the reviews of the benchmark, as ranks of words
    word_df,      \* Word Embeddings: the R variable word_df, a table as its rows
    review_len,   \* Word Embeddings: the table the review length plot is drawn from
    renv,         \* Word Embeddings: the model each of model, model1..3 is bound to
    stmt,         \* Word Embeddings: the next fit or evaluate after the first model
    X_train,      \* Word Embeddings: the R variable X_train
    X_test,       \* Word Embeddings: the R variable X_test
    padArgs,      \* Word Embeddings: the sides pad_sequences pads and truncates on
    rpc,          \* Word Embeddings: the chunk that ran last
    rmodels       \* Word Embeddings: the keras models built so far

tvars == <<inst, dataDefined, readback>>
kvars == <<kinst, kpc, search, rng, runlog>>
rvars == <<imdb, word_df, review_len, renv, stmt, X_train, X_test, padArgs, rpc, rmodels>>
vars == <<nb, inst, dataDefined, models, inflight, readback, kinst, kpc, search,
          rng, runlog,
          imdb, word_df, review_len, renv, stmt, X_train, X_test, padArgs, rpc, rmodels>>

-----------------------------------------------------------------------------
(* Bounds of the model *)

MaxConsumers == 2   \* consumers of a drawn instance
MaxQty == 3         \* largest supply / demand of a drawn instance
MaxRuns == 2        \* times the model cell is run in one session
MaxItems == 2       \* items of a drawn knapsack instance
MaxWeight == 1      \* largest weight of a drawn knapsack instance
MaxPrice == 2       \* largest price of a drawn knapsack instance
MaxCap == 2         \* largest capacity of a drawn knapsack instance
MaxReruns == 1      \* times a cell of the MIO notebook is run again in one session
MaxShort == 1       \* review lengths drawn: 0..MaxShort and maxlen +- MaxShort

-----------------------------------------------------------------------------
(* Arithmetic helpers *)

RECURSIVE SumSeq(_)
SumSeq(s) == IF s = <<>> THEN 0 ELSE Head(s) + SumSeq(Tail(s))

RECURSIVE Gcd(_, _)
Gcd(p, q) == IF q = 0 THEN p ELSE Gcd(q, p % q)

RECURSIVE GcdSeq(_)
GcdSeq(s) == IF s = <<>> THEN 0 ELSE Gcd(Head(s), GcdSeq(Tail(s)))

MinOf(S) == CHOOSE v \in S : \A w \in S : v <= w

MaxOf(S) == CHOOSE v \in S : \A w \in S : v >= w

-----------------------------------------------------------------------------
(* Transportation notebook: the data cell *)

m == 2
n == 5
b == <<1000, 4000>>
d == <<500, 900, 1800, 200, 700>>
c == << <<2, 4, 5, 2, 1>>,
        <<3, 1, 3, 2, 3>> >>

NotebookInstance == [m |-> m, n |-> n, b |-> b, d |-> d, c |-> c]

\* Other data the same cells can be run on: up to m suppliers, up to
\* MaxConsumers consumers, supplies and demands in 0..MaxQty, costs taken from
\* the notebook's matrix (rows in either order).
DrawnInstances ==
    { [m |-> mm, n |-> nn, b |-> bb, d |-> dd,
       c |-> [i \in 1..mm |-> [j \in 1..nn |-> c[IF flip THEN m + 1 - i ELSE i][j]]]] :
        mm \in 1..m, nn \in 1..MaxConsumers,
        bb \in UNION {[1..k -> 0..MaxQty] : k \in 1..m},
        dd \in UNION {[1..k -> 0..MaxQty] : k \in 1..MaxConsumers},
        flip \in BOOLEAN }

Instances ==
    {NotebookInstance} \cup
    {t \in DrawnInstances : Len(t.b) = t.m /\ Len(t.d) = t.n}

-----------------------------------------------------------------------------
(* Transportation notebook: the model cell *)

\* A point x is indexed x[j][i]: column j is what consumer j receives from
\* each supplier i.

SupplyConstraintStrict(t, x, i) == SumSeq([j \in 1..Len(x) |-> x[j][i]]) < t.b[i]

SupplyConstraintFirst(t, x, i) == SumSeq([j \in 1..Len(x) |-> x[j][i]]) <= t.b[1]

SupplyConstraintGe(t, x, i) == SumSeq([j \in 1..Len(x) |-> x[j][i]]) >= t.b[i]

\* sum(x[i,:]) <= b[i], on the columns x has
SupplyConstraint(t, x, i) == SumSeq([j \in 1..Len(x) |-> x[j][i]]) <= t.b[i]

\* demand_constraint[j]: sum(x[i,j] for i = 1:m) == d[j]
DemandConstraint(t, col, j) == SumSeq(col) = t.d[j]

\* The crates shipped, whatever they cost
ObjectiveUnweighted(t, x) ==
    SumSeq([j \in 1..t.n |-> SumSeq(x[j])])

\* sum(x .* c)
Objective(t, x) ==
    SumSeq([j \in 1..t.n |-> SumSeq([i \in 1..t.m |-> t.c[i][j] * x[j][i]])])

\* Supplies and demands are integers, so the transportation polytope has
\* integral vertices on the lattice of their common divisor: the minimum over
\* the reals is attained at a lattice point, and the polytope is empty exactly
\* when it holds no lattice point.
Unit(t) == LET g == Gcd(GcdSeq(t.b), GcdSeq(t.d)) IN IF g = 0 THEN 1 ELSE g

\* @variable(model, x[1:m,1:n] >= 0): the values a variable of column j takes
VarDomain(t, j) == {k * Unit(t) : k \in 0..(t.d[j] \div Unit(t))}

\* The columns that meet demand_constraint[j]
Columns(t, j) == {col \in [1..t.m -> VarDomain(t, j)] : DemandConstraint(t, col, j)}

\* The points on the first j columns.  No entry is negative, so a row sum
\* only grows as columns are added: a partial point that breaks a supply
\* constraint has no feasible completion and is dropped at once.
RECURSIVE Points(_, _)
Points(t, j) ==
    IF j = 0 THEN {<<>>}
    ELSE {q \in {Append(p, col) : p \in Points(t, j - 1), col \in Columns(t, j)} :
             \A i \in 1..t.m : SupplyConstraint(t, q, i)}

Feasible(t, x) ==
    /\ \A j \in 1..t.n : DemandConstraint(t, x[j], j)
    /\ \A i \in 1..t.m : SupplyConstraint(t, x, i)

FeasibleSet(t) == {x \in Points(t, t.n) : Feasible(t, x)}

\* getvalue and getobjectivevalue of a model with no solution give no number
\* (NaN); a number v is written <<v>>, a point as its columns.
NoValue == <<>>

\* solve(model): the status, the objective value and the optimal points
SolveLP(t) ==
    CHOOSE r \in
        {IF F = {}
         THEN [status |-> "Infeasible", objval |-> NoValue, optima |-> {NoValue}]
         ELSE CHOOSE o \in {[status |-> "Optimal", objval |-> <<best>>,
                             optima |-> {x \in F : Objective(t, x) = best}] :
                                best \in {MinOf({Objective(t, x) : x \in F})}} : TRUE :
            F \in {FeasibleSet(t)}} : TRUE

-----------------------------------------------------------------------------
(* The kernel runs one cell at a time and a cell blocks on its call *)

KernelNeverBusy == TRUE

KernelIdle == inflight = {}

\* Model(solver=GurobiSolver(...)): a fresh model object, not yet solved
NewModel(kind, data, limit) ==
    [kind |-> kind, data |-> data, limit |-> limit, status |-> "NotSolved",
     objval |-> NoValue, bound |-> NoValue, x |-> NoValue, solves |-> 0]

DataCell ==
    /\ nb = "transportation"
    /\ KernelIdle
    /\ ~dataDefined
    /\ dataDefined' = TRUE
    /\ UNCHANGED <<nb, inst, models, inflight, readback, kvars, rvars>>

\* model = Model(...); @variable; @constraint; @objective; solve(model)
ModelCell ==
    /\ nb = "transportation"
    /\ KernelIdle
    /\ dataDefined
    /\ Len(models) < MaxRuns
    /\ models' = Append(models, NewModel("LP", inst, FALSE))
    /\ inflight' = inflight \cup {[call |-> "solve", model |-> Len(models) + 1]}
    /\ UNCHANGED <<nb, inst, dataDefined, readback, kvars, rvars>>

\* A solve that is issued again when it ends Infeasible
SolveReturnRetry ==
    \E call \in inflight :
        /\ call.call = "solve"
        /\ models[call.model].kind = "LP"
        /\ models[call.model].solves < 2
        /\ \E r \in {SolveLP(models[call.model].data)} :
           /\ \E xv \in r.optima :
                 models' = [models EXCEPT ![call.model] =
                               [@ EXCEPT !.status = r.status, !.objval = r.objval,
                                         !.bound = r.objval,
                                         !.x = xv, !.solves = @ + 1]]
           /\ inflight' = IF r.status = "Infeasible" THEN inflight ELSE inflight \ {call}
        /\ UNCHANGED <<nb, inst, dataDefined, readback, kvars, rvars>>

SolveReturn ==
    \E call \in inflight :
        /\ call.call = "solve"
        /\ models[call.model].kind = "LP"
        /\ \E r \in {SolveLP(models[call.model].data)} :
           \E xv \in r.optima :
               models' = [models EXCEPT ![call.model] =
                             [@ EXCEPT !.status = r.status, !.objval = r.objval,
                                       !.bound = r.objval,
                                       !.x = xv, !.solves = @ + 1]]
        /\ inflight' = inflight \ {call}
        /\ UNCHANGED <<nb, inst, dataDefined, readback, kvars, rvars>>

\* getvalue(x): x is the variable of the model built last
GetValueCell ==
    /\ nb = "transportation"
    /\ KernelIdle
    /\ Len(models) > 0
    /\ readback' = [model |-> Len(models),
                    status |-> models[Len(models)].status,
                    value |-> models[Len(models)].x]
    /\ UNCHANGED <<nb, inst, dataDefined, models, inflight, kvars, rvars>>

-----------------------------------------------------------------------------
(* MIO notebook: the knapsack models *)

\* max sum(p[i] x[i])  s.t.  sum(w[i] x[i]) <= C for every row of w,  x binary.
\* Weights, prices and capacities are integers.

\* @constraint(m, x + 2y <= 1.5); @objective(m, Max, x + y): the constraint
\* is multiplied by 2, which keeps the same binary solutions.
SimpleKnapsack == [N |-> 2, w |-> << <<2, 4>> >>, p |-> <<1, 1>>, C |-> 3]

\* The N = 350 cells: coefficients drawn by rand(N) after srand(100), here
\* up to MaxItems items with integer coefficients.
KnapsackInstances ==
    { [N |-> nn, w |-> <<ww>>, p |-> pp, C |-> cc] :
        nn \in 1..MaxItems,
        ww \in UNION {[1..k -> 0..MaxWeight] : k \in 1..MaxItems},
        pp \in UNION {[1..k -> 0..MaxPrice] : k \in 1..MaxItems},
        cc \in 0..MaxCap }

KnapsackWellFormed(k) == Len(k.w[1]) = k.N /\ Len(k.p) = k.N

\* A node of the search is a partial solution: the decisions for the first
\* Len(x) items.

FitsNoCapacity(k, x) == TRUE

\* dot(w, x) <= C for every constraint, on the items decided so far
Fits(k, x) ==
    \A r \in 1..Len(k.w) :
        SumSeq([i \in 1..Len(x) |-> k.w[r][i] * x[i]]) <= k.C

\* dot(p, x)
Value(k, x) == SumSeq([i \in 1..Len(x) |-> k.p[i] * x[i]])

\* A bound that forgets the items not decided yet
NodeBoundDecidedOnly(k, x) == Value(k, x)

\* "the total value of all items" less the value excluded from the solution
NodeBound(k, x) ==
    SumSeq(k.p) - SumSeq([i \in 1..Len(x) |-> k.p[i] * (1 - x[i])])

NoIncumbent == -1

NoSearch == [open |-> <<>>, incumbent |-> NoIncumbent, incx |-> NoValue, pruned |-> 0]

\* The children of a node that can still be lifted
Children(k, x) == SelectSeq(<<Append(x, 1), Append(x, 0)>>, LAMBDA y : Fits(k, y))

\* Best bound: nothing better than the best open node or the incumbent remains
BestBd(k, s) ==
    MaxOf({NodeBound(k, s.open[q]) : q \in 1..Len(s.open)} \cup {s.incumbent})

\* Gap column: the difference between BestBd and Incumbent
Gap(k, s) == BestBd(k, s) - s.incumbent

\* "After Iain has weighed all 2^N possible collections of items (and verified
\* that he can lift them at once), he just chooses the best set."
NaiveEnumeration(k) ==
    MaxOf({Value(k, x) : x \in {y \in [1..k.N -> {0, 1}] : Fits(k, y)}})

Solving(id) == [call |-> "solve", model |-> id] \in inflight

StartSolve(k, limit) ==
    /\ models' = Append(models, NewModel("MIP", k, limit))
    /\ inflight' = inflight \cup {[call |-> "solve", model |-> Len(models) + 1]}
    /\ search' = [NoSearch EXCEPT !.open = <<<<>>>>]

\* The numbers the random source yields after srand(100), one per position:
\* those of the instance the session draws, and one more before they repeat.
Stream == kinst.w[1] \o kinst.p \o <<0>>

\* The source left as it was
srand_forgotten(g, seed) == g

\* srand(100): the source restarts at the first number of the seed
srand(g, seed) == 0

\* rand(N): the next N numbers of the source, which moves on by N
rand(g, N) ==
    [vals |-> [i \in 1..N |-> Stream[((g + i - 1) % Len(Stream)) + 1]],
     rng |-> (g + N) % Len(Stream)]

\* srand(100); N = 350; for _ in 1:10 dot(rand(N), x) <= N / 50; Max dot(rand(N), x)
\* (one constraint here): the model's data and the source afterwards
BuildRandomKnapsack(g) ==
    LET N == kinst.N
        g0 == srand(g, 100)
        row == rand(g0, N)
        obj == rand(row.rng, N)
    IN [data |-> [N |-> N, w |-> <<row.vals>>, p |-> obj.vals, C |-> kinst.C],
        rng |-> obj.rng]

\* How often a cell was run again: the runs beyond the first of each cell
Reruns == Len(runlog) - Cardinality({runlog[q].cell : q \in 1..Len(runlog)})

Logged(cell) == Append(runlog, [cell |-> cell, model |-> Len(models) + 1])

\* m = Model(solver=GurobiSolver()); x, y Bin; x + 2y <= 1.5; Max x + y; solve(m)
SimpleCell ==
    /\ nb = "mio"
    /\ KernelIdle
    /\ kpc = 1
    /\ StartSolve(SimpleKnapsack, FALSE)
    /\ kpc' = 2
    /\ runlog' = Logged("simple")
    /\ UNCHANGED <<nb, tvars, kinst, rng, rvars>>

\* srand(100); N = 350; ten rand(N) constraints; Max dot(rand(N), x); solve(m)
RunRandomCell(cell, limit) ==
    /\ nb = "mio"
    /\ KernelIdle
    /\ LET built == BuildRandomKnapsack(rng) IN
          /\ StartSolve(built.data, limit)
          /\ rng' = built.rng
    /\ runlog' = Logged(cell)
    /\ UNCHANGED <<nb, tvars, kinst, rvars>>

\* the N = 350 cell with Model(solver=GurobiSolver())
RandomCell ==
    /\ kpc = 2
    /\ RunRandomCell("random", FALSE)
    /\ kpc' = 3

\* the N = 350 cell with Model(solver=GurobiSolver(TimeLimit=1))
TimeLimitCell ==
    /\ kpc = 3
    /\ RunRandomCell("timelimit", TRUE)
    /\ kpc' = 4

\* Either N = 350 cell, run again by hand later in the session
RandomCellAgain ==
    /\ kpc > 2
    /\ Reruns < MaxReruns
    /\ RunRandomCell("random", FALSE)
    /\ UNCHANGED kpc

TimeLimitCellAgain ==
    /\ kpc > 3
    /\ Reruns < MaxReruns
    /\ RunRandomCell("timelimit", TRUE)
    /\ UNCHANGED kpc

MIPModel == Len(models)

MIPSolving == nb = "mio" /\ Len(models) > 0 /\ Solving(MIPModel)

\* "H": a heuristic finds a new best solution; the bound stays the same
Heuristic ==
    /\ MIPSolving
    /\ LET k == models[MIPModel].data IN
       \E x \in [1..k.N -> {0, 1}] :
           /\ Fits(k, x)
           /\ Value(k, x) > search.incumbent
           /\ search.open # <<>>
           /\ search' = [search EXCEPT !.incumbent = Value(k, x), !.incx = x]
    /\ UNCHANGED <<nb, tvars, kinst, kpc, rng, runlog, models, inflight, rvars>>

\* A search that also ignores the nodes that can go one higher
ExploreNodeOverPrune(k, s) ==
    LET x == Head(s.open)
        rest == Tail(s.open)
    IN IF s.incumbent # NoIncumbent /\ NodeBound(k, x) <= s.incumbent + 1
       THEN [s EXCEPT !.open = rest, !.pruned = @ + 1]
       ELSE IF Len(x) = k.N
            THEN [s EXCEPT !.open = rest, !.incumbent = Value(k, x), !.incx = x]
            ELSE [s EXCEPT !.open = Children(k, x) \o rest]

\* One node of the tree: ignored when it cannot go higher than the incumbent,
\* a new incumbent when it is a complete solution that is better, branched
\* otherwise.  pruned counts the nodes that were ignored.
ExploreNode(k, s) ==
    LET x == Head(s.open)
        rest == Tail(s.open)
    IN IF s.incumbent # NoIncumbent /\ NodeBound(k, x) <= s.incumbent
       THEN [s EXCEPT !.open = rest, !.pruned = @ + 1]
       ELSE IF Len(x) = k.N
            THEN [s EXCEPT !.open = rest, !.incumbent = Value(k, x), !.incx = x]
            ELSE [s EXCEPT !.open = Children(k, x) \o rest]

Explore ==
    /\ MIPSolving
    /\ search.open # <<>>
    /\ Gap(models[MIPModel].data, search) > 0
    /\ search' = ExploreNode(models[MIPModel].data, search)
    /\ UNCHANGED <<nb, tvars, kinst, kpc, rng, runlog, models, inflight, rvars>>

ReturnedNoValues(md, s, status) ==
    [md EXCEPT !.status = status,
               !.objval = IF s.incumbent = NoIncumbent THEN NoValue ELSE <<s.incumbent>>,
               !.bound = <<BestBd(md.data, s)>>,
               !.solves = @ + 1]

\* What solve(m) returns when the search stops with the given status
Returned(md, s, status) ==
    [md EXCEPT !.status = status,
               !.objval = IF s.incumbent = NoIncumbent THEN NoValue ELSE <<s.incumbent>>,
               !.bound = <<BestBd(md.data, s)>>,
               !.x = s.incx,
               !.solves = @ + 1]

\* "we will be finished solving when the gap reaches zero"
SearchDone ==
    /\ MIPSolving
    /\ Gap(models[MIPModel].data, search) = 0
    /\ models' = [models EXCEPT ![MIPModel] =
                     Returned(@, search,
                              IF search.incumbent = NoIncumbent
                              THEN "Infeasible" ELSE "Optimal")]
    /\ inflight' = inflight \ {[call |-> "solve", model |-> MIPModel]}
    /\ search' = NoSearch
    /\ UNCHANGED <<nb, tvars, kinst, kpc, rng, runlog, rvars>>

\* TimeLimit: "how long the solver will run before giving up"
TimeLimitReached ==
    /\ MIPSolving
    /\ models[MIPModel].limit
    /\ search.open # <<>>
    /\ models' = [models EXCEPT ![MIPModel] = Returned(@, search, "TimeLimit")]
    /\ inflight' = inflight \ {[call |-> "solve", model |-> MIPModel]}
    /\ search' = NoSearch
    /\ UNCHANGED <<nb, tvars, kinst, kpc, rng, runlog, rvars>>
-----------------------------------------------------------------------------
(* Word Embeddings: the data *)

num_words == 5000
maxlen == 500

epochs_one_short == 5 - 1

epochs == 5

\* keras reserves 0 for padding and 2 for words outside the vocabulary
pad_value == 0
oov_char == 2

\* "natural numbers which correspond to their frequency in the data": the
\* ranks drawn sit on both sides of the vocabulary's edge.
Ranks == <<1, 2, num_words - 1, num_words, num_words + 1>>

Review(len, shift) == [k \in 1..len |-> Ranks[((k + shift) % Len(Ranks)) + 1]]

ReviewLengths == (0..MaxShort) \cup ((maxlen - MaxShort)..(maxlen + MaxShort))

Reviews == {Review(len, shift) : len \in ReviewLengths, shift \in 0..(Len(Ranks) - 1)}

Sides == {"pre", "post"}

RestrictWordInclusive(w, nw) == IF w <= nw THEN w ELSE oov_char

\* dataset_imdb(num_words = ...): keras keeps the indices below num_words,
\* the ones layer_embedding(input_dim = num_words) accepts, and writes
\* oov_char for every other word.
RestrictWord(w, nw) == IF w < nw THEN w ELSE oov_char

\* dataset_imdb(num_words, maxlen): "sequences longer than this will be
\* filtered out"; the words of the others are restricted to the vocabulary.
dataset_imdb(xs, nw, ml) ==
    LET kept == SelectSeq(xs, LAMBDA r : Len(r) <= ml)
    IN [k \in 1..Len(kept) |-> [q \in 1..Len(kept[k]) |-> RestrictWord(kept[k][q], nw)]]

\* pad_sequences on one sequence: zeroes added on the padding side up to
\* maxlen, or entries dropped on the truncating side down to maxlen.
PadOne(r, ml, padding, truncating) ==
    IF Len(r) >= ml
    THEN IF truncating = "pre"
         THEN SubSeq(r, Len(r) - ml + 1, Len(r))
         ELSE SubSeq(r, 1, ml)
    ELSE LET zeros == [k \in 1..(ml - Len(r)) |-> pad_value]
         IN IF padding = "pre" THEN zeros \o r ELSE r \o zeros

\* Sequences handed on as they were loaded
pad_sequences_skipped(xs, ml) == xs

pad_sequences(xs, ml) ==
    [k \in 1..Len(xs) |-> PadOne(xs[k], ml, padArgs.padding, padArgs.truncating)]

-----------------------------------------------------------------------------
(* Word Embeddings: the chunks, knit in order *)

\* imdb <- dataset_imdb(); X_train <- imdb$train$x; X_test <- imdb$test$x
LoadChunk ==
    /\ nb = "rmd"
    /\ KernelIdle
    /\ rpc = "start"
    /\ X_train' = imdb.train
    /\ X_test' = imdb.test
    /\ rpc' = "explored"
    /\ UNCHANGED <<nb, tvars, kvars, models, inflight, imdb, word_df, review_len, renv, stmt, padArgs, rmodels>>

\* rep(sample_num, length(x))
rep(v, times) == [k \in 1..times |-> v]

\* tibble(sample_num = ..., word = ...): one row per entry of the columns
tibble(sample_num, word) ==
    [k \in 1..Len(word) |-> [sample_num |-> sample_num[k], word |-> word[k]]]

\* A table whose sample_num column holds the length of the review
create_word_df_swapped(x, sample_num) ==
    tibble(rep(Len(x), Len(x)), x)

create_word_df(x, sample_num) ==
    LET sample_num_vect == rep(sample_num, Len(x))
    IN tibble(sample_num_vect, x)

\* map2_df(.x, .y, .f = ~ create_word_df(.x, .y)): the tables of the pairs
\* .x[[k]], .y[k], bound by rows in the order of the pairs
RECURSIVE map2_df(_, _)
map2_df(xs, ys) ==
    IF Len(xs) = 0 THEN <<>>
    ELSE map2_df(SubSeq(xs, 1, Len(xs) - 1), SubSeq(ys, 1, Len(ys) - 1))
            \o create_word_df(xs[Len(xs)], ys[Len(ys)])

\* group_by(sample_num) %>% summarize(review_len = n()): one row per value
\* of sample_num that occurs, in increasing order, with the number of its rows
RECURSIVE summarize_n(_, _)
summarize_n(df, groups) ==
    IF groups = {} THEN <<>>
    ELSE LET g == MaxOf(groups)
         IN Append(summarize_n(df, groups \ {g}),
                   [sample_num |-> g,
                    review_len |-> Cardinality({k \in 1..Len(df) : df[k].sample_num = g})])

group_by_summarize(df) == summarize_n(df, {df[k].sample_num : k \in 1..Len(df)})

\* word_df = map2_df(.x = X_train, .y = 1:length(X_train), ...)
WordDfChunk ==
    /\ nb = "rmd"
    /\ KernelIdle
    /\ rpc = "explored"
    /\ word_df' = map2_df(X_train, [k \in 1..Len(X_train) |-> k])
    /\ rpc' = "words"
    /\ UNCHANGED <<nb, tvars, kvars, models, inflight, imdb, review_len, renv, stmt,
                   X_train, X_test, padArgs, rmodels>>

\* word_df %>% group_by(sample_num) %>% summarize(review_len = n()) %>% ggplot
ReviewLenChunk ==
    /\ nb = "rmd"
    /\ KernelIdle
    /\ rpc = "words"
    /\ review_len' = group_by_summarize(word_df)
    /\ rpc' = "lengths"
    /\ UNCHANGED <<nb, tvars, kvars, models, inflight, imdb, word_df, renv, stmt,
                   X_train, X_test, padArgs, rmodels>>

\* imdb <- dataset_imdb(num_words = 5000, maxlen = 500, seed = 17)
ReloadChunk ==
    /\ nb = "rmd"
    /\ KernelIdle
    /\ rpc = "lengths"
    /\ X_train' = dataset_imdb(imdb.train, num_words, maxlen)
    /\ X_test' = dataset_imdb(imdb.test, num_words, maxlen)
    /\ rpc' = "loaded"
    /\ UNCHANGED <<nb, tvars, kvars, models, inflight, imdb, word_df, review_len, renv, stmt, padArgs, rmodels>>

PadChunkTrainOnly ==
    /\ nb = "rmd"
    /\ KernelIdle
    /\ rpc = "loaded"
    /\ X_train' = pad_sequences(X_train, maxlen)
    /\ rpc' = "padded"
    /\ UNCHANGED <<nb, tvars, kvars, models, inflight, imdb, word_df, review_len, renv, stmt, X_test, padArgs, rmodels>>

\* X_train <- pad_sequences(sequences = X_train, maxlen = 500), and X_test
PadChunk ==
    /\ nb = "rmd"
    /\ KernelIdle
    /\ rpc = "loaded"
    /\ X_train' = pad_sequences(X_train, maxlen)
    /\ X_test' = pad_sequences(X_test, maxlen)
    /\ rpc' = "padded"
    /\ UNCHANGED <<nb, tvars, kvars, models, inflight, imdb, word_df, review_len, renv, stmt, padArgs, rmodels>>

\* layer_embedding(input_dim = 5000, output_dim = ..., input_length = 500)
input_dim == 5000
input_length == 500

\* The layers of a model and the weights they hold: updates counts the
\* passes of training over them.
LayerStack(output_dim) ==
    <<[layer |-> "embedding", input_dim |-> input_dim, output_dim |-> output_dim,
       input_length |-> input_length],
      [layer |-> "global_average_pooling_1d"],
      [layer |-> "dense", units |-> 64, activation |-> "relu"],
      [layer |-> "dense", units |-> 1, activation |-> "sigmoid"]>>

\* The layers of every model object, by the output_dim it was built with
Layers(md) == LayerStack(md.output_dim)

\* keras_model_sequential() %>% layer_embedding(...) %>% ... as an object
KerasModel(name, output_dim) ==
    [name |-> name, output_dim |-> output_dim, optimizer |-> "none",
     updates |-> 0, history |-> <<>>, fitted |-> FALSE, evaluated |-> <<>>]

\* The R variables that hold models, and the object each is bound to (0: none)
ModelNames == {"model", "model1", "model2", "model3"}

NoBinding == [v \in ModelNames |-> 0]

\* An assignment that binds the new name to the same object
clone_model_alias(heap, id, name) == [heap |-> heap, id |-> id]

\* clone_model(model): a new object with the same layers and weights of its
\* own, not compiled and not trained
clone_model(heap, id, name) ==
    [heap |-> Append(heap, KerasModel(name, heap[id].output_dim)),
     id |-> Len(heap) + 1]

BuildChunk ==
    /\ nb = "rmd"
    /\ KernelIdle
    /\ rpc = "padded"
    /\ rmodels' = <<KerasModel("model", 32)>>
    /\ renv' = [renv EXCEPT !["model"] = 1]
    /\ rpc' = "built"
    /\ UNCHANGED <<nb, tvars, kvars, models, inflight, imdb, word_df, review_len, stmt, X_train, X_test, padArgs>>

\* model %>% compile(optimizer = optimizer_sgd(), ...); res = model %>% fit(...)
CompileFitChunk ==
    /\ nb = "rmd"
    /\ KernelIdle
    /\ rpc = "built"
    /\ rmodels' = [rmodels EXCEPT ![1].optimizer = "sgd"]
    /\ inflight' = inflight \cup {[call |-> "fit", model |-> 1]}
    /\ rpc' = "fitting"
    /\ UNCHANGED <<nb, tvars, kvars, models, imdb, word_df, review_len, renv, stmt, X_train, X_test, padArgs>>

\* One epoch of fit: a pass over the training data updates the weights and
\* adds the epoch's loss and accuracy to the history.
Epoch(md) ==
    [md EXCEPT !.updates = @ + 1,
               !.history = Append(@, [epoch |-> Len(@) + 1,
                                      metrics |-> {"loss", "acc", "val_loss", "val_acc"}])]

EpochStep ==
    \E call \in inflight :
        /\ call.call = "fit"
        /\ Len(rmodels[call.model].history) < epochs
        /\ rmodels' = [rmodels EXCEPT ![call.model] = Epoch(@)]
        /\ UNCHANGED <<nb, tvars, kvars, models, inflight, imdb, word_df, review_len, renv, stmt, X_train, X_test,
                       padArgs, rpc>>

FitReturn ==
    \E call \in inflight :
        /\ call.call = "fit"
        /\ Len(rmodels[call.model].history) >= epochs
        /\ rmodels' = [rmodels EXCEPT ![call.model].fitted = TRUE]
        /\ inflight' = inflight \ {call}
        /\ rpc' = IF rpc = "fitting" THEN "fitted" ELSE rpc
        /\ UNCHANGED <<nb, tvars, kvars, models, imdb, word_df, review_len, renv, stmt, X_train, X_test, padArgs>>

\* model %>% evaluate(X_test, y_test)
EvaluateChunk ==
    /\ nb = "rmd"
    /\ KernelIdle
    /\ rpc = "fitted"
    /\ inflight' = inflight \cup {[call |-> "evaluate", model |-> 1]}
    /\ rpc' = "evaluating"
    /\ UNCHANGED <<nb, tvars, kvars, models, imdb, word_df, review_len, renv, stmt, X_train, X_test, padArgs, rmodels>>

EvaluateReturn ==
    \E call \in inflight :
        /\ call.call = "evaluate"
        /\ rmodels' = [rmodels EXCEPT ![call.model].evaluated =
                          Append(@, [fitted |-> rmodels[call.model].fitted,
                                     epochs |-> Len(rmodels[call.model].history)])]
        /\ inflight' = inflight \ {call}
        /\ rpc' = IF rpc = "evaluating" THEN "evaluated" ELSE rpc
        /\ UNCHANGED <<nb, tvars, kvars, models, imdb, word_df, review_len, renv, stmt, X_train, X_test, padArgs>>

\* The document after the first model, as its blocking calls: the optimizer
\* comparison (a fresh model, three clones compiled and fitted, three
\* evaluate calls) and the embedding sizes (three new models compiled and
\* fitted, three evaluate calls).
FitOf(name, how, output_dim, optimizer, template) ==
    [op |-> "fit", name |-> name, how |-> how, output_dim |-> output_dim,
     optimizer |-> optimizer, template |-> template]

EvaluateOf(name) ==
    [op |-> "evaluate", name |-> name, how |-> "bound", output_dim |-> 0,
     optimizer |-> "none", template |-> FALSE]

Rest ==
    <<FitOf("model1", "clone", 32, "sgd_momentum", TRUE),
      FitOf("model2", "clone", 32, "rmsprop", FALSE),
      FitOf("model3", "clone", 32, "adam", FALSE),
      EvaluateOf("model1"), EvaluateOf("model2"), EvaluateOf("model3"),
      FitOf("model1", "new", 4, "adam", FALSE),
      FitOf("model2", "new", 128, "adam", FALSE),
      FitOf("model3", "new", 256, "adam", FALSE),
      EvaluateOf("model1"), EvaluateOf("model2"), EvaluateOf("model3")>>

RestReady ==
    /\ nb = "rmd"
    /\ KernelIdle
    /\ rpc = "evaluated"
    /\ stmt \in 1..Len(Rest)

\* (model <- keras_model_sequential() ...;) modelK = clone_model(model) or a
\* new model; modelK %>% compile(optimizer = ...); resK = modelK %>% fit(...)
FitStatement ==
    /\ RestReady
    /\ Rest[stmt].op = "fit"
    /\ LET st == Rest[stmt]
           h0 == IF st.template THEN Append(rmodels, KerasModel("model", 32))
                 ELSE rmodels
           e0 == IF st.template THEN [renv EXCEPT !["model"] = Len(h0)] ELSE renv
           made == IF st.how = "clone"
                   THEN clone_model(h0, e0["model"], st.name)
                   ELSE [heap |-> Append(h0, KerasModel(st.name, st.output_dim)),
                         id |-> Len(h0) + 1]
       IN /\ rmodels' = [made.heap EXCEPT ![made.id].optimizer = st.optimizer]
          /\ renv' = [e0 EXCEPT ![st.name] = made.id]
          /\ inflight' = inflight \cup {[call |-> "fit", model |-> made.id]}
    /\ stmt' = stmt + 1
    /\ UNCHANGED <<nb, tvars, kvars, models, imdb, word_df, review_len,
                   X_train, X_test, padArgs, rpc>>

\* modelK %>% evaluate(X_test, y_test)
EvaluateStatement ==
    /\ RestReady
    /\ Rest[stmt].op = "evaluate"
    /\ inflight' = inflight \cup {[call |-> "evaluate", model |-> renv[Rest[stmt].name]]}
    /\ stmt' = stmt + 1
    /\ UNCHANGED <<nb, tvars, kvars, models, imdb, word_df, review_len, renv,
                   X_train, X_test, padArgs, rpc, rmodels>>

-----------------------------------------------------------------------------
(* A session runs one notebook *)

NotRead == [model |-> 0, status |-> "NotRead", value |-> NoValue]

NoData == [train |-> <<>>, test |-> <<>>]

DefaultPad == [padding |-> "pre", truncating |-> "pre"]

RIdle ==
    /\ imdb = NoData
    /\ word_df = <<>>
    /\ review_len = <<>>
    /\ renv = NoBinding
    /\ stmt = 1
    /\ padArgs = DefaultPad
    /\ X_train = <<>>
    /\ X_test = <<>>
    /\ rpc = "start"

InitTransportation ==
    /\ nb = "transportation"
    /\ inst \in Instances
    /\ kinst = SimpleKnapsack
    /\ rng = 0
    /\ RIdle

InitKnapsack ==
    /\ nb = "mio"
    /\ inst = NotebookInstance
    /\ kinst \in {k \in KnapsackInstances : KnapsackWellFormed(k)}
    /\ RIdle

\* No cell reads the random source before it calls srand
InitMIO == InitKnapsack /\ rng = 0

InitRmd ==
    /\ nb = "rmd"
    /\ inst = NotebookInstance
    /\ kinst = SimpleKnapsack
    /\ rng = 0
    /\ \E r1, r2 \in Reviews : imdb = [train |-> <<r1, r2>>, test |-> <<r2, r1>>]
    /\ \E side \in Sides : padArgs = [padding |-> side, truncating |-> "pre"]
    /\ X_train = <<>>
    /\ X_test = <<>>
    /\ word_df = <<>>
    /\ review_len = <<>>
    /\ renv = NoBinding
    /\ stmt = 1
    /\ rpc = "start"

InitCommon ==
    /\ dataDefined = FALSE
    /\ models = <<>>
    /\ inflight = {}
    /\ readback = NotRead
    /\ kpc = 1
    /\ search = NoSearch
    /\ runlog = <<>>
    /\ rmodels = <<>>

Init == (InitTransportation \/ InitMIO \/ InitRmd) /\ InitCommon

NextTransportation == DataCell \/ ModelCell \/ SolveReturn \/ GetValueCell

NextMIO ==
    \/ SimpleCell \/ RandomCell \/ TimeLimitCell
    \/ Heuristic \/ Explore \/ SearchDone \/ TimeLimitReached

NextRmd ==
    \/ LoadChunk \/ WordDfChunk \/ ReviewLenChunk \/ ReloadChunk \/ PadChunk \/ BuildChunk \/ CompileFitChunk
    \/ EpochStep \/ FitReturn \/ EvaluateChunk \/ EvaluateReturn

Next == NextTransportation \/ NextMIO \/ NextRmd

Spec == Init /\ [][Next]_vars

\* A session runs one notebook from its first cell to its last: the sessions
\* of each notebook, on their own
InitTransportationSession == InitTransportation /\ InitCommon

SpecTransportation == InitTransportationSession /\ [][NextTransportation]_vars

InitMIOSession == InitMIO /\ InitCommon

SpecMIO == InitMIOSession /\ [][NextMIO]_vars

InitRmdSession == InitRmd /\ InitCommon

SpecRmd == InitRmdSession /\ [][NextRmd]_vars

\* pad_sequences applied to any drawn sequence, padding and truncating on
\* either side
InitPad ==
    /\ nb = "rmd"
    /\ inst = NotebookInstance
    /\ kinst = SimpleKnapsack
    /\ rng = 0
    /\ \E r1, r2 \in Reviews :
          /\ imdb = [train |-> <<r1>>, test |-> <<r2>>]
          /\ X_train = <<r1>>
          /\ X_test = <<r2>>
    /\ \E s1, s2 \in Sides : padArgs = [padding |-> s1, truncating |-> s2]
    /\ word_df = <<>>
    /\ review_len = <<>>
    /\ renv = NoBinding
    /\ stmt = 1
    /\ rpc = "loaded"
    /\ InitCommon

SpecPad == InitPad /\ [][PadChunk]_vars

\* The whole R document: the chunks up to the first model's evaluate, then
\* the optimizer comparison and the embedding sizes
InitModels == InitRmdSession

NextModels == NextRmd \/ FitStatement \/ EvaluateStatement

SpecModels == InitModels /\ [][NextModels]_vars

\* The MIO notebook in a session where the N = 350 cells are also run again,
\* from any state of the random source
InitSeed == InitKnapsack /\ rng \in 0..(2 * kinst.N) /\ InitCommon

NextSeed == NextMIO \/ RandomCellAgain \/ TimeLimitCellAgain

SpecSeed == InitSeed /\ [][NextSeed]_vars

\* The two solver notebooks, with a solve that was issued running on: the
\* solver returns from an LP, explores the next node of a tree that has open
\* nodes and returns when none is left.
InitSolve == (InitTransportation \/ InitMIO) /\ InitCommon

NextSolve == NextTransportation \/ NextMIO

FairSolveSpec ==
    /\ InitSolve
    /\ [][NextSolve]_vars
    /\ WF_vars(SolveReturn)
    /\ WF_vars(Explore)
    /\ WF_vars(SearchDone)

-----------------------------------------------------------------------------
(* Claims about the transportation notebook *)

Solved(k) == k \in 1..Len(models) /\ models[k].status # "NotSolved"

\* Row and column sums of a point, written out from x[j][i]
RowSum(t, x, i) == SumSeq([j \in 1..t.n |-> x[j][i]])
ColSum(t, x, j) == SumSeq([i \in 1..t.m |-> x[j][i]])

MinSeq(s) == MinOf({s[k] : k \in 1..Len(s)})

\* Weak duality: multipliers u[i] <= 0 of the supply rows and v[j] of the demand
\* rows with u[i] + v[j] <= c[i][j] bound the cost of every real feasible point
\* from below by sum(b .* u) + sum(d .* v).  For given u the best v[j] is
\* min over i of c[i][j] - u[i].
DualBound(t, u) ==
    SumSeq([i \in 1..t.m |-> t.b[i] * u[i]]) +
    SumSeq([j \in 1..t.n |-> t.d[j] * MinSeq([i \in 1..t.m |-> t.c[i][j] - u[i]])])

HasDualBound(t, z) == \E u \in [1..t.m -> -5..0] : DualBound(t, u) = z

\* C1: on the notebook's instance the solve ends Optimal with objective 8600:
\* a feasible point costs 8600, no feasible point costs less, and a dual
\* certificate shows that no real-valued feasible point costs less either.
C1_NotebookOptimum ==
    \A k \in 1..Len(models) :
        (Solved(k) /\ models[k].kind = "LP" /\ models[k].data = NotebookInstance) =>
            /\ models[k].status = "Optimal"
            /\ models[k].objval = <<8600>>
            /\ \E x \in FeasibleSet(NotebookInstance) :
                   Objective(NotebookInstance, x) = 8600
            /\ \A x \in FeasibleSet(NotebookInstance) :
                   Objective(NotebookInstance, x) >= 8600
            /\ HasDualBound(NotebookInstance, 8600)

C1_Witness ==
    \E k \in 1..Len(models) :
        /\ models[k].kind = "LP"
        /\ models[k].data = NotebookInstance
        /\ models[k].status = "Optimal"
        /\ models[k].objval = <<8600>>

\* C2: whenever the solve reported Optimal, the point getvalue(x) displays has
\* every supplier's row sum <= its supply, every consumer's column sum equal to
\* its demand, and no negative entry.
C2_OptimalIsFeasible ==
    (readback.model > 0 /\ readback.status = "Optimal") =>
        LET t == models[readback.model].data
            x == readback.value
        IN /\ \A i \in 1..t.m : RowSum(t, x, i) <= t.b[i]
           /\ \A j \in 1..t.n : ColSum(t, x, j) = t.d[j]
           /\ \A i \in 1..t.m : \A j \in 1..t.n : x[j][i] >= 0

C2_Witness ==
    /\ readback.model > 0
    /\ readback.status = "Optimal"
    /\ \E j \in 1..Len(readback.value) : \E i \in 1..Len(readback.value[j]) :
           readback.value[j][i] > 0

\* C3: when total demand exceeds total supply the solve ends Infeasible and
\* no point is returned; the notebook's own instance has total demand 4100 and
\* total supply 5000.
C3_DemandExceedsSupply ==
    /\ SumSeq(d) = 4100 /\ SumSeq(b) = 5000
    /\ \A k \in 1..Len(models) :
          (Solved(k) /\ models[k].kind = "LP" /\
           SumSeq(models[k].data.d) > SumSeq(models[k].data.b)) =>
              /\ models[k].status = "Infeasible"
              /\ models[k].x = NoValue
    /\ (readback.model > 0 /\
         SumSeq(models[readback.model].data.d) > SumSeq(models[readback.model].data.b)) =>
            readback.value = NoValue

C3_Witness ==
    /\ readback.model > 0
    /\ SumSeq(models[readback.model].data.d) > SumSeq(models[readback.model].data.b)
    /\ readback.status = "Infeasible"

-----------------------------------------------------------------------------
(* Claims about the MIO notebook *)

\* C4: the simple knapsack (x, y binary, x + 2y <= 1.5, Max x + y) ends Optimal
\* with best objective 1 and best bound 1, gap 0; 1 is the largest x + y over
\* the binary assignments that satisfy the constraint.
C4_SimpleKnapsack ==
    \A k \in 1..Len(models) :
        (Solved(k) /\ models[k].kind = "MIP" /\ models[k].data = SimpleKnapsack
            /\ ~models[k].limit) =>
            /\ models[k].status = "Optimal"
            /\ models[k].objval = <<1>>
            /\ models[k].bound = <<1>>
            /\ models[k].bound[1] - models[k].objval[1] = 0
            /\ MaxOf({v \in 0..2 : \E x, y \in 0..1 :
                          v = x + y /\ 2 * x + 4 * y <= 3}) = 1

C4_Witness ==
    \E k \in 1..Len(models) :
        /\ models[k].kind = "MIP"
        /\ models[k].data = SimpleKnapsack
        /\ models[k].status = "Optimal"
        /\ models[k].x \in {<<1, 0>>, <<0, 1>>}

-----------------------------------------------------------------------------
(* Claims about the Word Embeddings document *)

CountOf(r, v) == Len(SelectSeq(r, LAMBDA e : e = v))

\* What pad_sequences must make of one sequence for maxlen 500
PaddedTo500(in, out) ==
    /\ Len(out) = 500
    /\ Len(in) < 500 =>
          /\ CountOf(out, 0) = 500 - Len(in)
          /\ SelectSeq(out, LAMBDA e : e # 0) = in
    /\ Len(in) >= 500 =>
          /\ CountOf(out, 0) = 0
          /\ \E off \in 0..(Len(in) - 500) : out = SubSeq(in, off + 1, off + 500)

\* C5: pad_sequences with maxlen = 500 gives every sequence of length L < 500
\* exactly 500 entries, 500 - L of them 0 and the others the original tokens in
\* their order, and gives every sequence of length >= 500 exactly 500 entries,
\* all of them original tokens.
C5_PadSequences ==
    rpc = "padded" =>
        /\ Len(X_train) = Len(imdb.train)
        /\ Len(X_test) = Len(imdb.test)
        /\ \A k \in 1..Len(imdb.train) : PaddedTo500(imdb.train[k], X_train[k])
        /\ \A k \in 1..Len(imdb.test) : PaddedTo500(imdb.test[k], X_test[k])

C5_Witness ==
    /\ rpc = "padded"
    /\ Len(imdb.train[1]) \in 1..499
    /\ Len(imdb.test[1]) > 500
    /\ Len(X_train[1]) = 500
    /\ Len(X_test[1]) = 500

\* The reviews dataset_imdb keeps, as they were before the vocabulary was cut
KeptReviews(xs) == SelectSeq(xs, LAMBDA r : Len(r) <= 500)

SameShape(xs, ys) ==
    /\ Len(xs) = Len(ys)
    /\ \A k \in 1..Len(xs) : Len(xs[k]) = Len(ys[k])

C7_HistoryPerEpoch ==
    \A k \in 1..Len(rmodels) :
        rmodels[k].fitted =>
            /\ Len(rmodels[k].history) = 5
            /\ \A e \in 1..Len(rmodels[k].history) :
                  /\ rmodels[k].history[e].epoch = e
                  /\ {"loss", "acc"} \subseteq rmodels[k].history[e].metrics

C7_Witness ==
    \E k \in 1..Len(rmodels) :
        /\ rmodels[k].fitted
        /\ rmodels[k].optimizer = "sgd"
        /\ Len(rmodels[k].history) = 5
        /\ rmodels[k].history[5].epoch = 5

-----------------------------------------------------------------------------
(* Claims about every notebook *)

\* C8: at most one external call (solve, fit, evaluate) is in progress; a call
\* starts only when the calls of the models built before have returned;
\* evaluate starts only on a model whose fit has returned; getvalue(x) reads
\* only a model whose solve has returned.
C8_OneCallAtATime ==
    /\ Cardinality(inflight) <= 1
    /\ \A call \in inflight :
          /\ call.call = "solve" => \A k \in 1..(call.model - 1) : Solved(k)
          /\ call.call = "evaluate" =>
                /\ rmodels[call.model].fitted
                /\ Len(rmodels[call.model].history) = epochs
    /\ \A k \in 1..Len(rmodels) : \A e \in 1..Len(rmodels[k].evaluated) :
          rmodels[k].evaluated[e].fitted
    /\ readback.model > 0 => readback.status # "NotSolved"

C8_Witness ==
    \/ /\ readback.model = 2
       /\ readback.status # "NotSolved"
       /\ inflight = {}
    \/ /\ nb = "rmd"
       /\ inflight = {[call |-> "evaluate", model |-> 1]}

\* What the models record: a model was solved once when its solve returned
\* and is being solved, for the first time, until then.
C9_StateOfModels ==
    \A k \in 1..Len(models) :
        /\ models[k].solves <= 1
        /\ Solved(k) <=> models[k].solves = 1
        /\ Solved(k) => ~Solving(k)
        /\ ~Solved(k) => Solving(k)

\* C9: a solve that ended Infeasible or Unbounded is only reported: the model
\* is not solved again and the model is not changed afterwards; every model is
\* solved exactly once.
C9_NoRetry ==
    /\ []C9_StateOfModels
    /\ [][\A k \in 1..Len(models) :
             models[k].status \in {"Infeasible", "Unbounded"} =>
                 /\ Len(models') >= k
                 /\ models'[k] = models[k]]_vars

C9_Witness ==
    \E k \in 1..Len(models) :
        /\ models[k].status = "Infeasible"
        /\ models[k].solves = 1
        /\ Len(models) > k
        /\ readback.model = k

TerminalStatuses == {"Optimal", "Infeasible", "Unbounded", "TimeLimit"}

NumVariables(md) == IF md.kind = "LP" THEN md.data.n ELSE md.data.N

SolveInFlight == \E call \in inflight : call.call = "solve"

C10_ReturnedModels ==
    \A k \in 1..Len(models) :
        Solved(k) =>
            /\ models[k].status \in TerminalStatuses
            /\ models[k].x # NoValue <=> models[k].objval # NoValue
            /\ models[k].status = "Optimal" =>
                  /\ models[k].objval # NoValue
                  /\ Len(models[k].x) = NumVariables(models[k])
            /\ models[k].status \in {"Infeasible", "Unbounded"} =>
                  models[k].x = NoValue
            /\ models[k].status = "TimeLimit" =>
                  /\ models[k].limit
                  /\ models[k].x # NoValue =>
                        /\ Len(models[k].x) = NumVariables(models[k])
                        /\ Fits(models[k].data, models[k].x)

\* C10: every solve call returns, with one status among Optimal, Infeasible,
\* Unbounded and TimeLimit; values of every variable and an objective value are
\* there only when the status is Optimal or a feasible solution was found; a
\* solve with a time limit returns as well.
C10_SolveReturns ==
    /\ []C10_ReturnedModels
    /\ SolveInFlight ~> ~SolveInFlight

C10_Witness ==
    \E k \in 1..Len(models) :
        /\ models[k].status = "TimeLimit"
        /\ models[k].limit
        /\ models[k].x # NoValue
        /\ models[k].bound[1] > models[k].objval[1]

-----------------------------------------------------------------------------
(* Claims about the branch-and-bound search *)

\* A solve(m) of the MIO notebook is running before and after the step
SearchStep == MIPSolving /\ MIPSolving' /\ Len(models') = Len(models)

\* The step on which solve(m) returns
ReturnStep == MIPSolving /\ ~MIPSolving'

\* While a search runs: the incumbent is the value of a solution that fits and
\* is at most the optimum, the optimum is at most the best bound (the
\* incumbent plus the gap), and at gap zero the incumbent is the optimum.
C11_SearchState ==
    MIPSolving =>
        \E opt \in {NaiveEnumeration(models[MIPModel].data)} :
        \E gap \in {Gap(models[MIPModel].data, search)} :
            LET k == models[MIPModel].data
            IN /\ search.incumbent # NoIncumbent =>
                     /\ Len(search.incx) = k.N
                     /\ Fits(k, search.incx)
                     /\ Value(k, search.incx) = search.incumbent
                     /\ search.incumbent <= opt
               /\ opt <= search.incumbent + gap
               /\ gap >= 0
               /\ gap = 0 => search.incumbent = opt

Completions(k, x) ==
    {y \in [1..k.N -> {0, 1}] : \A i \in 1..Len(x) : y[i] = x[i]}

\* C12: on every knapsack instance the search that skips the nodes which
\* cannot go higher than the incumbent returns the optimal value of the naive
\* enumeration of all 2^N collections, with a collection that fits and has that
\* value; while it runs, the incumbent is optimal or an open node still has an
\* optimal collection below it.
C12_PruningKeepsOptimum ==
    /\ \A k \in 1..Len(models) :
          (models[k].kind = "MIP" /\ models[k].status = "Optimal") =>
              \E best \in {NaiveEnumeration(models[k].data)} :
                  /\ models[k].objval = <<best>>
                  /\ models[k].x \in [1..models[k].data.N -> {0, 1}]
                  /\ Fits(models[k].data, models[k].x)
                  /\ Value(models[k].data, models[k].x) = best
    /\ MIPSolving =>
          \E best \in {NaiveEnumeration(models[MIPModel].data)} :
              LET k == models[MIPModel].data IN
              \/ search.incumbent = best
              \/ \E q \in 1..Len(search.open) :
                    \E y \in Completions(k, search.open[q]) :
                        Fits(k, y) /\ Value(k, y) = best

\* A solve that ignored a node and returned the optimum of an instance whose
\* capacity does not hold every item
C12_Witness ==
    /\ MIPSolving
    /\ search.pruned > 0
    /\ search.incumbent = NaiveEnumeration(models[MIPModel].data)
    /\ search.incumbent < SumSeq(models[MIPModel].data.p)
    /\ models[MIPModel].data.N = MaxItems

-----------------------------------------------------------------------------
(* Claims about the exploration of the reviews *)

\* The rows of a table that belong to one sample
RowsOf(df, g) == SelectSeq(df, LAMBDA row : row.sample_num = g)

WordsOf(rows) == [k \in 1..Len(rows) |-> rows[k].word]

\* The table create_word_df must return for x and sample_num
IsWordDfOf(df, x, sample_num) ==
    /\ Len(df) = Len(x)
    /\ \A k \in 1..Len(x) :
          df[k] = [sample_num |-> sample_num, word |-> x[k]]

\* C13: create_word_df(x, sample_num) has length(x) rows, row k holding
\* sample_num and x[k]; word_df has one row per token of every review of
\* X_train, review after review; counting the rows of each sample_num gives
\* the length of every non-empty review, and an empty review has no row and
\* no group.
C13_WordDf ==
    /\ rpc = "words" =>
          \A g \in 1..Len(X_train) :
              IsWordDfOf(create_word_df(X_train[g], g), X_train[g], g)
    /\ rpc \in {"words", "lengths"} =>
          /\ Len(word_df) = SumSeq([g \in 1..Len(X_train) |-> Len(X_train[g])])
          /\ \A g \in 1..Len(X_train) :
                WordsOf(RowsOf(word_df, g)) = X_train[g]
          /\ \A k \in 1..(Len(word_df) - 1) :
                word_df[k].sample_num <= word_df[k + 1].sample_num
    /\ rpc = "lengths" =>
          /\ \A g \in 1..Len(X_train) :
                IF Len(X_train[g]) > 0
                THEN RowsOf(review_len, g) =
                         <<[sample_num |-> g, review_len |-> Len(X_train[g])]>>
                ELSE RowsOf(review_len, g) = <<>>
          /\ Len(review_len) =
                Cardinality({g \in 1..Len(X_train) : Len(X_train[g]) > 0})

\* Review lengths counted for a first review with no token and a second one
\* with more than 500
C13_Witness ==
    /\ rpc = "lengths"
    /\ Len(X_train[1]) = 0
    /\ Len(X_train[2]) > 500
    /\ review_len = <<[sample_num |-> 2, review_len |-> Len(X_train[2])]>>

-----------------------------------------------------------------------------
(* Claims about the recorded transportation plan *)

\* getvalue(x) as recorded, [300 0 0 0 700; 200 900 1800 200 0], by columns
RecordedPlan == <<<<300, 200>>, <<0, 900>>, <<0, 1800>>, <<0, 200>>, <<700, 0>>>>

\* C14: on the notebook's instance the recorded plan is feasible and costs
\* 8600, every other feasible plan costs more than 8600, and it is the plan
\* every solve of that instance returns and getvalue(x) shows.  (A vertex of
\* the feasible region is a multiple of the common unit of b and d, and two
\* optimal plans would give two optimal vertices.)
C14_UniqueOptimum ==
    \A k \in 1..Len(models) :
        (Solved(k) /\ models[k].kind = "LP" /\ models[k].data = NotebookInstance) =>
            /\ models[k].x = RecordedPlan
            /\ Feasible(NotebookInstance, RecordedPlan)
            /\ Objective(NotebookInstance, RecordedPlan) = 8600
            /\ \A x \in FeasibleSet(NotebookInstance) :
                  x # RecordedPlan => Objective(NotebookInstance, x) > 8600
            /\ readback.model = k => readback.value = RecordedPlan

C14_Witness ==
    /\ readback.model > 0
    /\ models[readback.model].data = NotebookInstance
    /\ readback.status = "Optimal"
    /\ readback.value = RecordedPlan

-----------------------------------------------------------------------------
(* Claims about the seeded instance *)

RandomCells == {"random", "timelimit"}

\* C15: every run of the two N = 350 cells builds the same instance, the one
\* the numbers after srand(100) give, drawn in the same order (constraint
\* coefficients, then objective coefficients): any two of the models have the
\* same N, constraint, capacity and objective, coefficient for coefficient,
\* and differ only in that the second cell's model has the TimeLimit option.
C15_SameInstance ==
    \A q1, q2 \in 1..Len(runlog) :
        (runlog[q1].cell \in RandomCells /\ runlog[q2].cell \in RandomCells) =>
            LET m1 == models[runlog[q1].model]
                m2 == models[runlog[q2].model]
            IN /\ m1.kind = m2.kind
               /\ m1.data.N = m2.data.N /\ m1.data.C = m2.data.C
               /\ Len(m1.data.w) = Len(m2.data.w)
               /\ \A r \in 1..Len(m1.data.w) : \A i \in 1..m1.data.N :
                     m1.data.w[r][i] = m2.data.w[r][i]
               /\ \A i \in 1..m1.data.N : m1.data.p[i] = m2.data.p[i]
               /\ m1.data.w[1] = SubSeq(Stream, 1, m1.data.N)
               /\ m1.data.p = SubSeq(Stream, m1.data.N + 1, 2 * m1.data.N)
               /\ m1.limit <=> runlog[q1].cell = "timelimit"

\* The first cell run again after the second, on numbers that are not all
\* the same
C15_Witness ==
    \E q1, q2, q3 \in 1..Len(runlog) :
        /\ q1 < q2 /\ q2 < q3
        /\ runlog[q1].cell = "random"
        /\ runlog[q2].cell = "timelimit"
        /\ runlog[q3].cell = "random"
        /\ kinst.N = MaxItems
        /\ \E i, j \in 1..Len(Stream) : Stream[i] # Stream[j]

-----------------------------------------------------------------------------
(* The data every embedding layer is given *)

\* The chunks after which X_train and X_test are the padded matrices
Padded == rpc \in {"padded", "built", "fitting", "fitted", "evaluating", "evaluated"}

FitsEmbedding(X, dim, len) ==
    \A k \in 1..Len(X) :
        /\ Len(X[k]) = len
        /\ \A q \in 1..Len(X[k]) : X[k][q] >= 0 /\ X[k][q] <= dim - 1

\* What a call in flight feeds its model: fit the training matrix, evaluate
\* the test matrix
Fed(call) == IF call.call = "fit" THEN X_train ELSE X_test

\* C16: once the data is loaded with num_words = 5000 and padded to 500,
\* every row of X_train and X_test has 500 entries in 0..4999; every model
\* built has an embedding with input_dim = 5000 and input_length = 500; and
\* every fit and evaluate call feeds its model rows of the embedding's
\* input_length whose tokens are below the embedding's input_dim.
C16_EmbeddingInputs ==
    nb = "rmd" =>
        /\ Padded => FitsEmbedding(X_train, 5000, 500) /\ FitsEmbedding(X_test, 5000, 500)
        /\ \A i \in 1..Len(rmodels) :
               /\ Layers(rmodels[i])[1].layer = "embedding"
               /\ Layers(rmodels[i])[1].input_dim = 5000
               /\ Layers(rmodels[i])[1].input_length = 500
        /\ \A call \in inflight :
               FitsEmbedding(Fed(call), Layers(rmodels[call.model])[1].input_dim,
                             Layers(rmodels[call.model])[1].input_length)

\* A model of the embedding sizes is being fitted on a training matrix that
\* holds a padded review with the largest kept word and a replaced word
C16_Witness ==
    /\ nb = "rmd"
    /\ \E call \in inflight :
           /\ call.call = "fit"
           /\ rmodels[call.model].output_dim = 256
    /\ \E k \in 1..Len(X_train) :
           /\ X_train[k][1] = pad_value
           /\ \E q \in 1..Len(X_train[k]) : X_train[k][q] = num_words - 1
           /\ \E q \in 1..Len(imdb.train[k]) : imdb.train[k][q] >= num_words

-----------------------------------------------------------------------------
(* Clones are models of their own *)

\* What training and compiling change of a model object
Trained(md) == [updates |-> md.updates, optimizer |-> md.optimizer, history |-> md.history]

\* The names bound by modelK = clone_model(model) and not assigned since
Clones ==
    {v \in ModelNames :
        \E q \in 1..(stmt - 1) :
            /\ q <= Len(Rest)
            /\ Rest[q].op = "fit" /\ Rest[q].name = v /\ Rest[q].how = "clone"
            /\ \A q2 \in (q + 1)..(stmt - 1) :
                   q2 <= Len(Rest) => ~(Rest[q2].op = "fit" /\ Rest[q2].name = v)}

C17_Separate ==
    (nb = "rmd" /\ Clones # {}) =>
        /\ \A v1, v2 \in Clones \cup {"model"} : v1 # v2 => renv[v1] # renv[v2]
        /\ \A v \in Clones : Layers(rmodels[renv[v]]) = Layers(rmodels[renv["model"]])
        /\ Trained(rmodels[renv["model"]]) = Trained(KerasModel("model", 32))

C17_OnlyTheFitted ==
    \A i \in (DOMAIN rmodels) \cap (DOMAIN rmodels') :
        Trained(rmodels'[i]) # Trained(rmodels[i]) =>
            /\ \E call \in inflight \cup inflight' : call.call = "fit" /\ call.model = i
            /\ \A j \in ((DOMAIN rmodels) \cap (DOMAIN rmodels')) \ {i} :
                   Trained(rmodels'[j]) = Trained(rmodels[j])

C17_EvaluateKeepsWeights ==
    (\E call \in inflight \cup inflight' : call.call = "evaluate") =>
        \A i \in (DOMAIN rmodels) \cap (DOMAIN rmodels') :
            Trained(rmodels'[i]) = Trained(rmodels[i])

\* C17: model1, model2 and model3 are objects of their own, distinct from
\* each other and from the template model, with the template's layer stack;
\* compiling and fitting one of them changes the weights, optimizer and
\* history of that object only, so the template stays uncompiled and
\* untrained; and evaluate changes no model's weights.
C17_ClonesIndependent ==
    /\ []C17_Separate
    /\ [][C17_OnlyTheFitted]_vars
    /\ [][C17_EvaluateKeepsWeights]_vars

\* The three clones are trained, each with its own optimizer, the template
\* is not, and the first clone has been evaluated
C17_Witness ==
    /\ nb = "rmd"
    /\ Clones = {"model1", "model2", "model3"}
    /\ \A v \in Clones : rmodels[renv[v]].updates = epochs /\ rmodels[renv[v]].fitted
    /\ rmodels[renv["model1"]].optimizer = "sgd_momentum"
    /\ rmodels[renv["model2"]].optimizer = "rmsprop"
    /\ rmodels[renv["model3"]].optimizer = "adam"
    /\ rmodels[renv["model"]].updates = 0
    /\ rmodels[renv["model1"]].evaluated # <<>>

====
